---- MODULE Spec2Model ----
(***************************************************************************)
(* State persistence of ShinySDR: PersistenceFileGlue (startup, debounced  *)
(* write) and PersistenceChangeDetector (subscription bookkeeping), from   *)
(* shinysdr/i/persistence.py.                                              *)
(*                                                                         *)
(* The persisted object (ExportedState), its cells and their               *)
(* subscriptions, the Twisted reactor and the file system are              *)
(* collaborators of that file; they are modelled by what the code asks of  *)
(* them.                                                                   *)
(***************************************************************************)
EXTENDS Integers, Sequences, FiniteSets, TLC

\* ------------------------------------------------------------------ bounds

\* cells of the root object
NumNodes == 2
\* cell values are 0..MaxVal
MaxVal == 1
\* get() calls of one PersistenceChangeDetector
MaxGets == 3
\* reactor.callLater calls
MaxCalls == 3
\* _PERSISTENCE_DELAY = 0.5 s, in clock ticks of 0.25 s.  Time is kept as
\* the ticks a delayed call has left and the ticks since an event, the
\* latter up to the delay
PERSISTENCE_DELAY == 2

Nodes == 1..NumNodes
Vals == 0..MaxVal

Min(a, b) == IF a < b THEN a ELSE b

Max(a, b) == IF a < b THEN b ELSE a

\* ------------------------------------------------------- JSON text <-> value
\* A JSON document is modelled as the token sequence between its braces:
\* key/value members, white space, and junk no parser accepts.  A value (a
\* state dict) is a function from a subset of Nodes to cell values.

KV(k, v) == [t |-> "kv", k |-> k, v |-> v]
WS == [t |-> "ws", k |-> 0, v |-> 0]
Junk == [t |-> "junk", k |-> 0, v |-> 0]

\* json.dump(value, f): the members in key order, ", " between two members
RECURSIVE DumpFrom(_, _)
DumpFrom(value, n) ==
    IF n > NumNodes THEN <<>>
    ELSE IF n \in DOMAIN value
         THEN <<KV(n, value[n])>>
              \o (IF \E m \in DOMAIN value : m > n THEN <<WS>> ELSE <<>>)
              \o DumpFrom(value, n + 1)
         ELSE DumpFrom(value, n + 1)

json_dump(value) == DumpFrom(value, 1)

\* json.load(f) raises ValueError on text that is not JSON
json_ok(text) == \A i \in 1..Len(text) : text[i].t # "junk"

\* json.load(f): white space skipped, the last member of a repeated key wins
json_load(text) ==
    LET keys == {text[i].k : i \in {j \in 1..Len(text) : text[j].t = "kv"}}
        last(k) == CHOOSE i \in 1..Len(text) :
                      /\ text[i].t = "kv" /\ text[i].k = k
                      /\ \A j \in (i + 1)..Len(text) :
                            ~(text[j].t = "kv" /\ text[j].k = k)
    IN [k \in keys |-> text[last(k)].v]

\* ------------------------------------------------------ the persisted object

\* ExportedState.state_from_json fails on a value a cell does not accept
deserialize_ok(value) == \A k \in DOMAIN value : value[k] \in Vals

\* ExportedState.state_from_json(value): the members present are applied
state_from_json(tr, value) ==
    [n \in Nodes |-> IF n \in DOMAIN value THEN value[n] ELSE tr[n]]

\* a failing state_from_json has applied the members before the refused one
state_from_json_partial(tr, value) ==
    LET bad == CHOOSE k \in DOMAIN value :
                  /\ value[k] \notin Vals
                  /\ \A j \in DOMAIN value : j < k => value[j] \in Vals
    IN [n \in Nodes |-> IF n \in DOMAIN value /\ n < bad THEN value[n] ELSE tr[n]]

\* ExportedState.state_to_json(): the value of every cell
state_to_json(tr) == [n \in Nodes |-> tr[n]]

\* Subscription.unsubscribe(): no further delivery; the count saturates at 2
Unsubscribe(s, h) ==
    [s EXCEPT ![h].registered = FALSE,
              ![h].pending = FALSE,
              ![h].unsubs = Min(@ + 1, 2)]

\* subscribe_fn(callback, context) on one cell, during get() number gen
NewSubscription(node, gen) ==
    [node |-> node, gen |-> gen, registered |-> TRUE, pending |-> FALSE, unsubs |-> 0]

\* Cell.set: the subscriptions registered on the cell are due a callback
Notify(s, n) ==
    [h \in DOMAIN s |->
        IF s[h].node = n /\ s[h].registered
        THEN [s[h] EXCEPT !.pending = TRUE] ELSE s[h]]

\* ------------------------------------------------ PersistenceChangeDetector

RECURSIVE UnsubscribeAll(_, _)
UnsubscribeAll(s, list) ==
    IF list = <<>> THEN s
    ELSE UnsubscribeAll(Unsubscribe(s, Head(list)), Tail(list))

\* as ClearSubscriptions, but the old handles are dropped, not unsubscribed
ClearSubscriptions_Dropped(held, s) ==
    [held |-> <<>>, subs |-> s]

\* as ClearSubscriptions, but the list is not swapped for an empty one
ClearSubscriptions_NoSwap(held, s) ==
    [held |-> held, subs |-> UnsubscribeAll(s, held)]

\* __clear_subscriptions: the list is swapped for an empty one, then every
\* handle of the old list is unsubscribed
ClearSubscriptions(held, s) ==
    [held |-> <<>>, subs |-> UnsubscribeAll(s, held)]

\* __add_subscription(subscribe_fn): subscribe and keep the handle
AddSubscription(held, s, node, gen) ==
    [held |-> Append(held, Len(s) + 1),
     subs |-> Append(s, NewSubscription(node, gen))]

\* state_to_json(subscriber=...): the subscriber is called for every cell
RECURSIVE SubscribeFrom(_, _, _, _)
SubscribeFrom(held, s, n, gen) ==
    IF n > NumNodes THEN [held |-> held, subs |-> s]
    ELSE LET a == AddSubscription(held, s, n, gen)
         IN SubscribeFrom(a.held, a.subs, n + 1, gen)

\* as PcdGet, but the subscriptions of the call before are kept
PcdGet_NoClear(held, s, gen, tr) ==
    LET w == SubscribeFrom(held, s, 1, gen)
    IN [held |-> w.held, subs |-> w.subs, value |-> state_to_json(tr)]

\* get(): [held, subs, value]
PcdGet(held, s, gen, tr) ==
    LET c == ClearSubscriptions(held, s)
        w == SubscribeFrom(c.held, c.subs, 1, gen)
    IN [held |-> w.held, subs |-> w.subs, value |-> state_to_json(tr)]

\* state_to_json(subscriber=...) as far as cell last
RECURSIVE SubscribeFromTo(_, _, _, _, _)
SubscribeFromTo(held, s, n, last, gen) ==
    IF n > last THEN [held |-> held, subs |-> s]
    ELSE LET a == AddSubscription(held, s, n, gen)
         IN SubscribeFromTo(a.held, a.subs, n + 1, last, gen)

\* as PcdGetFails, but the handles are gathered aside and kept only when
\* the walk returns
PcdGetFails_Lost(held, s, gen, j) ==
    LET c == ClearSubscriptions(held, s)
        w == SubscribeFromTo(c.held, c.subs, 1, j, gen)
    IN [held |-> <<>>, subs |-> w.subs]

\* get() when state_to_json raises after the subscriber was called for j
\* cells: [held, subs], no value
PcdGetFails(held, s, gen, j) ==
    LET c == ClearSubscriptions(held, s)
        w == SubscribeFromTo(c.held, c.subs, 1, j, gen)
    IN [held |-> w.held, subs |-> w.subs]

\* ------------------------------------------------------------ the reactor

\* DelayedCall.active()
Active(tm, c) == c # 0 /\ tm[c].st = "pending"

\* reactor.callLater(delay, f): the call is due in delay ticks
CallLater(tm, delay) ==
    Append(tm, [left |-> delay, st |-> "pending"])

\* DelayedCall.cancel()
Cancel(tm, c) == [tm EXCEPT ![c].st = "cancelled"]

\* ---------------------------------------------------- PersistenceFileGlue

\* as WriteLater, but a call is scheduled whether or not one is active
WriteLater_Always(tm, c) ==
    [timers |-> CallLater(tm, PERSISTENCE_DELAY), dwc |-> Len(tm) + 1]

\* as WriteLater, but a call is scheduled only when none ever was
WriteLater_OnlyIfNone(tm, c) ==
    IF c = 0
    THEN [timers |-> CallLater(tm, PERSISTENCE_DELAY), dwc |-> Len(tm) + 1]
    ELSE [timers |-> tm, dwc |-> c]

\* __write_later: [timers, dwc]
WriteLater(tm, c) ==
    IF ~Active(tm, c)
    THEN [timers |-> CallLater(tm, PERSISTENCE_DELAY), dwc |-> Len(tm) + 1]
    ELSE [timers |-> tm, dwc |-> c]

VARIABLES
    phase,          \* "new", "running", "disabled" (filename is None), "failed"
    filename,       \* "None" or the path of the state file
    defaults,       \* the value get_defaults(root_object) returns
    fileExists,     \* os.path.isfile(filename)
    file,           \* text of the state file
    backupExists,   \* os.path.isfile(filename + '~')
    backup,         \* text of the backup file
    tree,           \* the cells of root_object
    pcdExists,      \* self.__pcd is a PersistenceChangeDetector
    subscriptions,  \* PersistenceChangeDetector.__subscriptions (handles)
    subs,           \* every Subscription ever made, by handle
    gets,           \* get() calls so far
    timers,         \* every DelayedCall the reactor was asked for
    dwc,            \* self.__delayed_write_call: 0 (None) or an index of timers
    orig,           \* the file system as construction found it
    obs             \* what an observer of the run has recorded

vars == <<phase, filename, defaults, fileExists, file, backupExists, backup,
          tree, pcdExists, subscriptions, subs, gets, timers, dwc, orig, obs>>

store == <<fileExists, file>>
bak == <<backupExists, backup>>
detector == <<pcdExists, subscriptions, subs, gets>>
config == <<filename, defaults, orig>>

EmptyValue == [n \in {} |-> 0]

\* the cells of a root object just made
InitTree == [n \in Nodes |-> 0]

\* what the default-supplier may return: _no_defaults' {} or a state dict
DefaultChoices == {EmptyValue, [n \in {1} |-> MaxVal]}

\* state files construction may find: as json.dump writes them; with other
\* white space and a repeated key; not JSON; with a value a cell refuses
InitialFiles ==
    { json_dump([n \in Nodes |-> MaxVal]),
      <<WS, KV(1, 0), KV(1, MaxVal)>>,
      <<KV(1, MaxVal), Junk>>,
      <<KV(1, MaxVal), WS, KV(2, MaxVal + 1)>> }

\* a backup left by an earlier run
StaleBackup == <<KV(2, MaxVal), WS, WS>>

InitObs ==
    [uptime |-> 0,                \* ticks since construction
     defaultsCalls |-> 0,         \* calls of get_defaults
     ioOps |-> 0,                 \* file operations (open, copy)
     errors |-> 0,                \* exceptions raised
     writes |-> 0,                \* writes of the state file
     mutated |-> FALSE,           \* a cell was set after construction
     mutAge |-> -1,               \* ... ticks since the first time
     cbSinceGet |-> 0,            \* callbacks since the last get(), up to 2
     mutsSinceGet |-> 0,          \* cells set since the last get(), up to 2
     nodesSinceGet |-> {},        \* ... which
     lastGetValue |-> EmptyValue, \* what the last get() returned
     repeatGet |-> FALSE,         \* the last get() followed one with no set between
     spurious |-> FALSE,          \* ... and differed from it or saw a callback
     batchAge |-> -1,             \* ticks since the first dirty after the last flush
     batchDirty |-> 0,            \* dirty calls within the delay of the first, up to 2
     flushBatchDirty |-> 0,       \* ... of the batch the last flush ended
     mutsSinceDirty |-> 0,        \* cells set since that first dirty, up to 2
     flushEarly |-> FALSE,        \* a flush ran sooner than the delay after it
     flushBeforeMut |-> FALSE,    \* a flush ran sooner than the delay after the first set
     flushStale |-> FALSE,        \* a flush wrote something else than the cells then
     flushFresh |-> FALSE,        \* the last flush wrote a cell set after the dirty
     cbWhileHolding |-> FALSE,    \* the callback ran with a subscription still held
     cancelled |-> FALSE,         \* a delayed call was cancelled before it ran
     getFailed |-> FALSE,         \* the last get() raised
     partialGen |-> 0,            \* the last get() that raised after subscribing
     flushGetFailed |-> FALSE,    \* the get() of the last flush raised
     failTouched |-> FALSE,       \* such a flush changed the file or left a call pending
     retryWatch |-> FALSE,        \* a write has failed and no callback has run since
     retried |-> FALSE,           \* a flush ran while retryWatch
     getAfterFire |-> FALSE]      \* the callback ran between the last two get()

Init ==
    /\ phase = "new"
    /\ filename \in {"None", "state.json"}
    /\ IF filename = "None"
       THEN /\ defaults = EmptyValue
            /\ fileExists = FALSE /\ file = <<>>
            /\ backupExists = FALSE /\ backup = <<>>
       ELSE /\ \/ fileExists = FALSE /\ file = <<>> /\ defaults \in DefaultChoices
               \/ /\ fileExists = TRUE /\ file \in InitialFiles
                  /\ defaults = [n \in {1} |-> MaxVal]
            /\ \/ backupExists = FALSE /\ backup = <<>>
               \/ backupExists = TRUE /\ backup = StaleBackup
    /\ tree = InitTree
    /\ pcdExists = FALSE
    /\ subscriptions = <<>>
    /\ subs = <<>>
    /\ gets = 0
    /\ timers = <<>>
    /\ dwc = 0
    /\ orig = [fileExists |-> fileExists, file |-> file,
               backupExists |-> backupExists, backup |-> backup]
    /\ obs = InitObs

\* what an observer records when get() returns value
ObsAtGet(o, value) ==
    LET repeat == gets >= 1 /\ o.mutsSinceGet = 0
    IN [o EXCEPT !.repeatGet = repeat,
                 !.spurious = @ \/ (repeat /\ (value # o.lastGetValue \/ o.cbSinceGet > 0)),
                 !.lastGetValue = value,
                 !.cbSinceGet = 0,
                 !.mutsSinceGet = 0,
                 !.nodesSinceGet = {},
                 !.getFailed = FALSE,
                 !.getAfterFire = (o.cbSinceGet > 0)]

\* what an observer records when get() number gen raises after j cells
ObsAtFailedGet(o, j, gen) ==
    [o EXCEPT !.cbSinceGet = 0,
              !.getAfterFire = (o.cbSinceGet > 0),
              !.getFailed = TRUE,
              !.partialGen = IF j > 0 THEN gen ELSE @]

\* what an observer records when the change callback (dirty) is called
ObsAtDirty(o) ==
    [o EXCEPT !.batchAge = IF @ = -1 THEN 0 ELSE @,
              !.batchDirty =
                  IF o.batchAge < PERSISTENCE_DELAY THEN Min(@ + 1, 2) ELSE @,
              !.mutsSinceDirty = IF o.batchAge = -1 THEN 0 ELSE @]

\* what an observer records when __do_callback calls the callback, the
\* detector then holding heldThen, the subscriptions being s
ObsAtCallback(o, heldThen, s) ==
    [ObsAtDirty(o) EXCEPT
        !.cbSinceGet = Min(@ + 1, 2),
        !.retryWatch = FALSE,
        !.cbWhileHolding = @ \/ heldThen # <<>>
                             \/ \E h \in DOMAIN s : s[h].registered]

\* what an observer records when a flush has written text
ObsAtFlush(o, text) ==
    [o EXCEPT !.ioOps = @ + 1,
              !.writes = @ + 1,
              !.flushEarly = @ \/ o.batchAge = -1
                               \/ o.batchAge < PERSISTENCE_DELAY,
              !.flushBeforeMut = @ \/ o.mutAge = -1
                                   \/ o.mutAge < PERSISTENCE_DELAY,
              !.flushStale = @ \/ text # json_dump(state_to_json(tree)),
              !.flushFresh = (o.batchAge # -1 /\ o.mutsSinceDirty = 1),
              !.flushGetFailed = FALSE,
              !.retried = @ \/ o.retryWatch,
              !.flushBatchDirty = o.batchDirty,
              !.batchAge = -1,
              !.batchDirty = 0,
              !.mutsSinceDirty = 0]

\* what an observer records when the get() of a flush has raised; touched
\* says whether the flush changed the file or left a delayed call pending
ObsAtFailedFlush(o, touched) ==
    [o EXCEPT !.flushGetFailed = TRUE,
              !.failTouched = @ \/ touched,
              !.retried = @ \/ o.retryWatch,
              !.batchAge = -1,
              !.batchDirty = 0,
              !.mutsSinceDirty = 0]

\* what an observer records when the write of a flush has raised
ObsAtFailedWrite(o) ==
    [o EXCEPT !.ioOps = @ + 1,
              !.flushGetFailed = FALSE,
              !.retried = @ \/ o.retryWatch,
              !.retryWatch = TRUE,
              !.batchAge = -1,
              !.batchDirty = 0,
              !.mutsSinceDirty = 0]

\* as StartDetector, but get() is called before the stored state is
\* applied, whose changes its subscriptions then notify
StartDetector_BeforeLoad(tr, o) ==
    LET g == PcdGet(<<>>, <<>>, 1, tree)
    IN /\ tree' = tr
       /\ pcdExists' = TRUE
       /\ subscriptions' = g.held
       /\ subs' = [h \in DOMAIN g.subs |->
                     [g.subs[h] EXCEPT
                        !.pending = (tr[g.subs[h].node] # tree[g.subs[h].node])]]
       /\ gets' = 1
       /\ obs' = ObsAtGet(o, g.value)
       /\ phase' = "running"

\* PersistenceFileGlue.__init__, lines 65-70: the detector is made around
\* the root object, cells tr, and get() is called once; nothing is scheduled
StartDetector(tr, o) ==
    LET g == PcdGet(<<>>, <<>>, 1, tr)
    IN /\ tree' = tr
       /\ pcdExists' = TRUE
       /\ subscriptions' = g.held
       /\ subs' = g.subs
       /\ gets' = 1
       /\ obs' = ObsAtGet(o, g.value)
       /\ phase' = "running"

\* as LoadDefaults, but the defaults are written to the state file at once
LoadDefaults_WriteFile ==
    /\ StartDetector(state_from_json(tree, defaults),
                     [obs EXCEPT !.defaultsCalls = @ + 1, !.ioOps = @ + 1])
    /\ fileExists' = TRUE
    /\ file' = json_dump(state_to_json(state_from_json(tree, defaults)))
    /\ UNCHANGED bak

\* PersistenceFileGlue.__init__, lines 62-63: no state file
LoadDefaults ==
    /\ StartDetector(state_from_json(tree, defaults),
                     [obs EXCEPT !.defaultsCalls = @ + 1])
    /\ UNCHANGED <<store, bak>>

\* as LoadExisting, but the backup is made before the file is loaded
LoadExisting_CopyFirst ==
    /\ backupExists' = TRUE
    /\ backup' = file
    /\ IF ~json_ok(file)
       THEN /\ phase' = "failed"
            /\ obs' = [obs EXCEPT !.ioOps = @ + 2, !.errors = @ + 1]
            /\ UNCHANGED <<tree, detector, store>>
       ELSE IF ~deserialize_ok(json_load(file))
       THEN /\ phase' = "failed"
            /\ tree' = state_from_json_partial(tree, json_load(file))
            /\ obs' = [obs EXCEPT !.ioOps = @ + 2, !.errors = @ + 1]
            /\ UNCHANGED <<detector, store>>
       ELSE /\ StartDetector(state_from_json(tree, json_load(file)),
                             [obs EXCEPT !.ioOps = @ + 2])
            /\ UNCHANGED store

\* as LoadExisting, but a file that does not load is treated as no file
LoadExisting_Fallback ==
    IF ~json_ok(file) \/ ~deserialize_ok(json_load(file))
    THEN LoadDefaults
    ELSE /\ backupExists' = TRUE
         /\ backup' = file
         /\ StartDetector(state_from_json(tree, json_load(file)),
                          [obs EXCEPT !.ioOps = @ + 2])
         /\ UNCHANGED store

\* PersistenceFileGlue.__init__, lines 58-61: the state file exists; an
\* exception of json.load or state_from_json leaves __init__
LoadExisting ==
    IF ~json_ok(file)
    THEN /\ phase' = "failed"
         /\ obs' = [obs EXCEPT !.ioOps = @ + 1, !.errors = @ + 1]
         /\ UNCHANGED <<tree, detector, store, bak>>
    ELSE IF ~deserialize_ok(json_load(file))
    THEN /\ phase' = "failed"
         /\ tree' = state_from_json_partial(tree, json_load(file))
         /\ obs' = [obs EXCEPT !.ioOps = @ + 1, !.errors = @ + 1]
         /\ UNCHANGED <<detector, store, bak>>
    ELSE /\ backupExists' = TRUE
         /\ backup' = file
         /\ StartDetector(state_from_json(tree, json_load(file)),
                          [obs EXCEPT !.ioOps = @ + 2])
         /\ UNCHANGED store

\* as ConstructDisabled, but __init__ does not return and goes on
ConstructDisabled_NoReturn == LoadDefaults

\* PersistenceFileGlue.__init__, lines 53-56: filename is None
ConstructDisabled ==
    /\ phase' = "disabled"
    /\ UNCHANGED <<tree, detector, store, bak, obs>>

\* PersistenceFileGlue.__init__
Construct ==
    /\ phase = "new"
    /\ IF filename = "None" THEN ConstructDisabled
       ELSE IF fileExists THEN LoadExisting
       ELSE LoadDefaults
    /\ UNCHANGED <<config, timers, dwc>>

\* a cell of the root object is set to another value (Cell.set)
Mutate(n, v) ==
    /\ phase # "new"
    /\ v # tree[n]
    /\ tree' = [tree EXCEPT ![n] = v]
    /\ subs' = Notify(subs, n)
    /\ obs' = IF phase = "running"
              THEN [obs EXCEPT !.mutated = TRUE,
                               !.mutAge = IF @ = -1 THEN 0 ELSE @,
                               !.mutsSinceGet = Min(@ + 1, 2),
                               !.nodesSinceGet = @ \cup {n},
                               !.mutsSinceDirty =
                                   IF obs.batchAge = -1 THEN 0 ELSE Min(@ + 1, 2)]
              ELSE obs
    /\ UNCHANGED <<phase, config, store, bak, pcdExists, subscriptions, gets,
                   timers, dwc>>

\* as DoCallback, but the subscriptions held are not cleared
DoCallback_NoClear(s) ==
    LET w == WriteLater(timers, dwc)
    IN /\ subscriptions' = subscriptions
       /\ subs' = s
       /\ timers' = w.timers
       /\ dwc' = w.dwc
       /\ obs' = ObsAtCallback(obs, subscriptions, s)

\* as DoCallback, but the callback is called first and the subscriptions
\* are cleared after it
DoCallback_CallbackFirst(s) ==
    LET c == ClearSubscriptions(subscriptions, s)
        w == WriteLater(timers, dwc)
    IN /\ subscriptions' = c.held
       /\ subs' = c.subs
       /\ timers' = w.timers
       /\ dwc' = w.dwc
       /\ obs' = ObsAtCallback(obs, subscriptions, s)

\* as DoCallback, but the callback is not called
DoCallback_NoCallback(s) ==
    LET c == ClearSubscriptions(subscriptions, s)
    IN /\ subscriptions' = c.held
       /\ subs' = c.subs
       /\ timers' = timers
       /\ dwc' = dwc
       /\ obs' = obs

\* PersistenceChangeDetector.__do_callback, s the subscriptions as the
\* delivery left them; the callback is PersistenceFileGlue.__write_later
DoCallback(s) ==
    LET c == ClearSubscriptions(subscriptions, s)
        w == WriteLater(timers, dwc)
    IN /\ subscriptions' = c.held
       /\ subs' = c.subs
       /\ timers' = w.timers
       /\ dwc' = w.dwc
       /\ obs' = ObsAtCallback(obs, c.held, c.subs)

\* a registered subscription delivers the change of its cell
Deliver(h) ==
    /\ phase = "running"
    /\ subs[h].registered /\ subs[h].pending
    /\ Len(timers) < MaxCalls
    /\ DoCallback([subs EXCEPT ![h].pending = FALSE])
    /\ UNCHANGED <<phase, config, store, bak, tree, pcdExists, gets>>

\* as WriteImmediately, but what is written is the value the get() before
\* this one returned
WriteImmediately_Cached(tm) ==
    LET g == PcdGet(subscriptions, subs, gets + 1, tree)
        text == json_dump(obs.lastGetValue)
    IN /\ subscriptions' = g.held
       /\ subs' = g.subs
       /\ gets' = gets + 1
       /\ UNCHANGED bak
       /\ fileExists' = TRUE
       /\ file' = text
       /\ timers' = IF Active(tm, dwc) THEN Cancel(tm, dwc) ELSE tm
       /\ obs' = ObsAtFlush(ObsAtGet(obs, g.value), text)

\* as WriteImmediately, but the file as it is is first copied to the backup
WriteImmediately_BackupFirst(tm) ==
    LET g == PcdGet(subscriptions, subs, gets + 1, tree)
        text == json_dump(g.value)
    IN /\ subscriptions' = g.held
       /\ subs' = g.subs
       /\ gets' = gets + 1
       /\ backupExists' = (backupExists \/ fileExists)
       /\ backup' = IF fileExists THEN file ELSE backup
       /\ fileExists' = TRUE
       /\ file' = text
       /\ timers' = IF Active(tm, dwc) THEN Cancel(tm, dwc) ELSE tm
       /\ obs' = ObsAtFlush(ObsAtGet(obs, g.value), text)

\* PersistenceFileGlue.__write_immediately, tm the reactor's calls as the
\* reactor left them when it ran this one; g is what get() returns, text
\* what json.dump writes, o what the observer has recorded at the get()
WriteImmediately(tm) ==
    \E g \in {PcdGet(subscriptions, subs, gets + 1, tree)} :
    \E text \in {json_dump(g.value)} :
    \E o \in {ObsAtGet(obs, g.value)} :
       /\ subscriptions' = g.held
       /\ subs' = g.subs
       /\ gets' = gets + 1
       /\ UNCHANGED bak
       /\ fileExists' = TRUE
       /\ file' = text
       /\ timers' = IF Active(tm, dwc) THEN Cancel(tm, dwc) ELSE tm
       /\ obs' = ObsAtFlush(o, text)

\* as WriteImmediatelyGetFails, but the file is opened for writing before
\* get() is called
WriteImmediatelyGetFails_OpenFirst(tm, j) ==
    LET g == PcdGetFails(subscriptions, subs, gets + 1, j)
    IN /\ subscriptions' = g.held
       /\ subs' = g.subs
       /\ gets' = gets + 1
       /\ UNCHANGED bak
       /\ fileExists' = TRUE
       /\ file' = <<>>
       /\ timers' = tm
       /\ obs' = ObsAtFailedFlush(ObsAtFailedGet(obs, j, gets + 1),
                                  <<TRUE, <<>>>> # store
                                     \/ \E c \in DOMAIN tm : tm[c].st = "pending")

\* __write_immediately when get() raises after j cells: the exception
\* leaves the function at line 80, before the file is opened
WriteImmediatelyGetFails(tm, j) ==
    LET g == PcdGetFails(subscriptions, subs, gets + 1, j)
    IN /\ subscriptions' = g.held
       /\ subs' = g.subs
       /\ gets' = gets + 1
       /\ UNCHANGED bak
       /\ fileExists' = fileExists
       /\ file' = file
       /\ timers' = tm
       /\ obs' = ObsAtFailedFlush(ObsAtFailedGet(obs, j, gets + 1),
                                  \E c \in DOMAIN tm : tm[c].st = "pending")

\* the ways the write of a flush fails: open() raises (-1), taken where
\* the file does not exist yet, or json.dump raises after k members were
\* written to the truncated file, taken at the first member (0), the file
\* left empty
WriteFailures == {-1, 0}

\* as WriteImmediatelyWriteFails, but the write is scheduled again
WriteImmediatelyWriteFails_Retry(tm, k) ==
    LET g == PcdGet(subscriptions, subs, gets + 1, tree)
        text == json_dump(g.value)
    IN /\ subscriptions' = g.held
       /\ subs' = g.subs
       /\ gets' = gets + 1
       /\ UNCHANGED bak
       /\ fileExists' = (fileExists \/ k >= 0)
       /\ file' = IF k >= 0 THEN SubSeq(text, 1, k) ELSE file
       /\ timers' = CallLater(tm, PERSISTENCE_DELAY)
       /\ obs' = ObsAtFailedWrite(ObsAtGet(obs, g.value))

\* __write_immediately when open() or json.dump raises: get() has
\* returned, the exception leaves the function at lines 82-83
WriteImmediatelyWriteFails(tm, k) ==
    LET g == PcdGet(subscriptions, subs, gets + 1, tree)
        text == json_dump(g.value)
    IN /\ subscriptions' = g.held
       /\ subs' = g.subs
       /\ gets' = gets + 1
       /\ UNCHANGED bak
       /\ fileExists' = (fileExists \/ k >= 0)
       /\ file' = IF k >= 0 THEN SubSeq(text, 1, k) ELSE file
       /\ timers' = tm
       /\ obs' = ObsAtFailedWrite(ObsAtGet(obs, g.value))

\* the reactor runs a delayed call that is due: it is marked called, then
\* its function runs
TimerExpires(c) ==
    /\ phase = "running"
    /\ timers[c].st = "pending"
    /\ timers[c].left = 0
    /\ gets < MaxGets
    /\ WriteImmediately([timers EXCEPT ![c].st = "called"])
    /\ UNCHANGED <<phase, config, tree, pcdExists, dwc>>

\* an age a tick later
Older(age) == IF age = -1 THEN -1 ELSE Min(age + 1, PERSISTENCE_DELAY)

\* a tick of the reactor's clock: every delayed call not yet run is a tick
\* nearer (a call that is due runs when the reactor gets to it)
Tick ==
    /\ phase # "new"
    /\ timers' = [c \in DOMAIN timers |->
                    IF timers[c].st = "pending"
                    THEN [timers[c] EXCEPT !.left = Max(@ - 1, 0)]
                    ELSE timers[c]]
    /\ obs' = [obs EXCEPT !.uptime = Older(@),
                          !.mutAge = Older(@),
                          !.batchAge = Older(@)]
    /\ UNCHANGED <<phase, config, store, bak, tree, detector, dwc>>

\* a caller of PersistenceChangeDetector.get()
ClientGet ==
    /\ phase = "running"
    /\ gets < MaxGets
    /\ LET g == PcdGet(subscriptions, subs, gets + 1, tree)
       IN /\ subscriptions' = g.held
          /\ subs' = g.subs
          /\ gets' = gets + 1
          /\ obs' = ObsAtGet(obs, g.value)
    /\ UNCHANGED <<phase, config, store, bak, tree, pcdExists, timers, dwc>>

\* a subscription whose notification was under way when it was unsubscribed
\* delivers all the same (line 116: "even if the subscriptions misbehave")
LateDeliver(h) ==
    /\ phase = "running"
    /\ ~subs[h].registered
    /\ Len(timers) < MaxCalls
    /\ DoCallback(subs)
    /\ UNCHANGED <<phase, config, store, bak, tree, pcdExists, gets>>

Next ==
    \/ Construct
    \/ \E n \in Nodes, v \in Vals : Mutate(n, v)
    \/ \E h \in DOMAIN subs : Deliver(h)
    \/ \E c \in DOMAIN timers : TimerExpires(c)
    \/ Tick

\* the glue alone: its detector is private to it
Spec == Init /\ [][Next]_vars

\* one start: persistence on, no state file, no backup, _no_defaults
InitPlain ==
    /\ Init
    /\ filename = "state.json"
    /\ ~fileExists
    /\ ~backupExists
    /\ defaults = EmptyValue

NextPCD ==
    \/ Construct
    \/ \E n \in Nodes, v \in Vals : Mutate(n, v)
    \/ \E h \in DOMAIN subs : Deliver(h)
    \/ ClientGet

\* the detector under callers of its get(), no delayed call running
SpecPCD == InitPlain /\ [][NextPCD]_vars

NextDirty ==
    \/ Next
    \/ \E h \in DOMAIN subs : LateDeliver(h)

\* the glue with subscriptions that deliver after unsubscribe()
SpecDirty == InitPlain /\ [][NextDirty]_vars

\* the delayed call c is cancelled before the reactor runs it, as
\* IDelayedCall.cancel() on a call not yet run allows; its write is not
\* made
CancelTimer(c) ==
    /\ phase = "running"
    /\ timers[c].st = "pending"
    /\ timers' = Cancel(timers, c)
    /\ obs' = [obs EXCEPT !.cancelled = TRUE,
                          !.batchAge = -1,
                          !.batchDirty = 0,
                          !.mutsSinceDirty = 0]
    /\ UNCHANGED <<phase, config, store, bak, tree, detector, dwc>>

NextCancel ==
    \/ Next
    \/ \E c \in DOMAIN timers : CancelTimer(c)

\* the glue under a reactor whose pending calls may be cancelled
SpecCancel == InitPlain /\ [][NextCancel]_vars

\* the walks a failing state_to_json may have made: the cells subscribed
\* before it raised
Walks == 0..NumNodes

\* a caller of PersistenceChangeDetector.get() when state_to_json raises
ClientGetFails(j) ==
    /\ phase = "running"
    /\ gets < MaxGets
    /\ LET g == PcdGetFails(subscriptions, subs, gets + 1, j)
       IN /\ subscriptions' = g.held
          /\ subs' = g.subs
          /\ gets' = gets + 1
          /\ obs' = ObsAtFailedGet(obs, j, gets + 1)
    /\ UNCHANGED <<phase, config, store, bak, tree, pcdExists, timers, dwc>>

\* the reactor runs a delayed call that is due, and get() raises in it
TimerExpiresGetFails(c, j) ==
    /\ phase = "running"
    /\ timers[c].st = "pending"
    /\ timers[c].left = 0
    /\ gets < MaxGets
    /\ WriteImmediatelyGetFails([timers EXCEPT ![c].st = "called"], j)
    /\ UNCHANGED <<phase, config, tree, pcdExists, dwc>>

\* the reactor runs a delayed call that is due, and the write raises in it
TimerExpiresWriteFails(c, k) ==
    /\ phase = "running"
    /\ timers[c].st = "pending"
    /\ timers[c].left = 0
    /\ gets < MaxGets
    /\ k = -1 => ~fileExists
    /\ WriteImmediatelyWriteFails([timers EXCEPT ![c].st = "called"], k)
    /\ UNCHANGED <<phase, config, tree, pcdExists, dwc>>

NextPCDFail ==
    \/ NextPCD
    \/ \E j \in Walks : ClientGetFails(j)

\* the detector under callers of its get() when state_to_json may raise
SpecPCDFail == InitPlain /\ [][NextPCDFail]_vars

NextGetFail ==
    \/ Next
    \/ \E c \in DOMAIN timers, j \in Walks : TimerExpiresGetFails(c, j)

\* the glue when state_to_json may raise in a flush
SpecGetFail == InitPlain /\ [][NextGetFail]_vars

NextWriteFail ==
    \/ Next
    \/ \E c \in DOMAIN timers, k \in WriteFailures :
          TimerExpiresWriteFails(c, k)

\* the glue when the write may raise in a flush
SpecWriteFail == InitPlain /\ [][NextWriteFail]_vars

\* a cell is set while the detector has get() calls left: the cells stop
\* changing in the end
LiveMutate(n, v) ==
    /\ gets < MaxGets
    /\ Mutate(n, v)

\* a step of the reactor: a notification due is delivered, the clock
\* advances, or a delayed call that is due is run
ReactorStep ==
    \/ \E h \in DOMAIN subs : Deliver(h)
    \/ \E c \in DOMAIN timers : TimerExpires(c)
    \/ Tick

NextLive ==
    \/ Construct
    \/ \E n \in Nodes, v \in Vals : LiveMutate(n, v)
    \/ ReactorStep

\* the reactor keeps running: it does not stop while it has a step to take
Fairness == WF_vars(ReactorStep)

\* the glue under a running reactor, neither state_to_json nor the write
\* raising
SpecLive == InitPlain /\ [][NextLive]_vars /\ Fairness

\* ------------------------------------------------------------------ claims

Held == {subscriptions[i] : i \in DOMAIN subscriptions}

\* the subscriptions made during get() number g
CollectedBy(g) == {h \in DOMAIN subs : subs[h].gen = g}

EarlierReleased ==
    \A h \in DOMAIN subs : subs[h].gen < gets => ~subs[h].registered

ActiveTimers == {c \in DOMAIN timers : timers[c].st = "pending"}

LoadFails ==
    /\ filename # "None"
    /\ orig.fileExists
    /\ ~json_ok(orig.file) \/ ~deserialize_ok(json_load(orig.file))

BackupUntouched ==
    /\ backupExists = orig.backupExists
    /\ backup = orig.backup

StoreUntouched ==
    /\ fileExists = orig.fileExists
    /\ file = orig.file

\* C1, as claimed: the detector always holds exactly the subscriptions made
\* during its last get(), and those of every earlier get() are unsubscribed.
C1_HeldIsLastCollected ==
    pcdExists => /\ Held = CollectedBy(gets)
                 /\ EarlierReleased

\* C1, amended: the detector holds exactly the subscriptions made during its
\* last get() until one of them has fired, and none from then to the next
\* get(); those of every earlier get() are unsubscribed.
C1_HeldIsLastCollectedUntilFired ==
    pcdExists => /\ Held = IF obs.cbSinceGet = 0 THEN CollectedBy(gets) ELSE {}
                 /\ EarlierReleased

\* a second get() collected subscriptions and one of them has fired since
C1_Witness ==
    /\ pcdExists
    /\ gets >= 2
    /\ obs.cbSinceGet > 0
    /\ CollectedBy(gets) # {}
    /\ Held = {}

\* C2: between two consecutive get() calls the change callback is delivered
\* at most once, however many cells were set between them.
C2_AtMostOneCallback == obs.cbSinceGet <= 1

\* the callback was delivered after a second get(), and two different cells
\* were set since that get()
C2_Witness ==
    /\ gets >= 2
    /\ obs.cbSinceGet = 1
    /\ obs.mutsSinceGet = 2
    /\ Cardinality(obs.nodesSinceGet) >= 2

\* C3: dirty calls while a delayed write is pending schedule no second call
\* and do not move the pending one: at most one delayed call is active, it
\* is the one __delayed_write_call names, it is due the delay after the
\* first dirty of its batch, every batch has one, every delayed call that
\* ran made one write, and no write ran sooner than the delay after the
\* first dirty of its batch.
C3_OneFlushPerBatch ==
    /\ Cardinality(ActiveTimers) <= 1
    /\ \A c \in ActiveTimers :
          /\ c = dwc
          /\ obs.batchAge # -1
          /\ timers[c].left = PERSISTENCE_DELAY - obs.batchAge
    /\ obs.batchAge # -1 => ActiveTimers # {}
    /\ obs.writes = Cardinality(DOMAIN timers \ ActiveTimers)
    /\ ~obs.flushEarly

\* a write ended a batch of two or more dirty calls, all within the delay
\* of the first
C3_Witness ==
    /\ obs.writes >= 1
    /\ obs.flushBatchDirty = 2

\* C4: what a flush writes is the serialization of the cells as they are
\* when it runs, whatever they were when dirty was called.
C4_FlushWritesCurrentState ==
    /\ ~obs.flushStale
    /\ (obs.writes > 0 /\ obs.mutsSinceGet = 0) =>
          /\ fileExists
          /\ file = json_dump(state_to_json(tree))

\* a flush has written a cell that was set between the dirty call and the
\* flush, and nothing was set since
C4_Witness ==
    /\ obs.flushFresh
    /\ obs.mutsSinceGet = 0
    /\ file = json_dump(state_to_json(tree))

\* C5: the get() of construction is no dirty event: until a cell is set
\* after construction no delayed call exists and the state file is as
\* construction found it, and no write runs sooner than the delay after the
\* first such set.
C5_NoWriteBeforeMutation ==
    phase = "running" =>
        /\ ~obs.mutated => /\ timers = <<>>
                           /\ dwc = 0
                           /\ obs.writes = 0
                           /\ StoreUntouched
        /\ ~obs.flushBeforeMut

\* construction applied a stored or default state, the delay has passed,
\* and nothing was scheduled or written
C5_Witness ==
    /\ phase = "running"
    /\ ~obs.mutated
    /\ tree # InitTree
    /\ obs.uptime >= PERSISTENCE_DELAY
    /\ timers = <<>>

\* C6: with a state file that loads, the stored value is applied to the root
\* and the backup then holds the text of the state file as construction
\* found it; a load that fails leaves the backup as it was.
C6_BackupIsOriginal ==
    (filename # "None" /\ orig.fileExists) =>
        /\ phase = "running" =>
              /\ backupExists
              /\ backup = orig.file
              /\ ~obs.mutated =>
                    tree = state_from_json(InitTree, json_load(orig.file))
        /\ phase \in {"new", "failed"} => BackupUntouched

\* construction loaded a state file over an older backup; the backup is the
\* file's text, which is not what json.dump would write for its value
C6_Witness ==
    /\ phase = "running"
    /\ orig.fileExists
    /\ orig.backupExists
    /\ backup = orig.file
    /\ backup # orig.backup
    /\ backup # json_dump(json_load(orig.file))
    /\ tree # InitTree

\* C7: without a state file get_defaults is called once and its value
\* applied, the backup is left alone and the state file does not exist
\* before the first flush; with a state file get_defaults is not called.
C7_DefaultsOnlyWhenMissing ==
    (filename # "None" /\ phase # "new") =>
        /\ ~orig.fileExists =>
              /\ phase = "running"
              /\ obs.defaultsCalls = 1
              /\ BackupUntouched
              /\ ~obs.mutated => tree = state_from_json(InitTree, defaults)
              /\ fileExists => obs.writes > 0
        /\ orig.fileExists => obs.defaultsCalls = 0

\* construction without a state file applied defaults that change a cell
C7_Witness ==
    /\ phase = "running"
    /\ ~orig.fileExists
    /\ ~obs.mutated
    /\ tree # InitTree
    /\ ~fileExists

\* C8: a state file that does not load makes construction raise, and nothing
\* else: no defaults, no backup, no detector, no subscription, no delayed
\* call, and the state file stays as it was.
C8_LoadFailureIsFatal ==
    (LoadFails /\ phase # "new") =>
        /\ phase = "failed"
        /\ obs.errors = 1
        /\ obs.defaultsCalls = 0
        /\ BackupUntouched
        /\ StoreUntouched
        /\ ~pcdExists
        /\ subscriptions = <<>>
        /\ subs = <<>>
        /\ timers = <<>>
        /\ obs.writes = 0

\* construction failed on a state file whose value a cell refuses, and the
\* delay has passed since
C8_Witness ==
    /\ phase = "failed"
    /\ json_ok(orig.file)
    /\ ~deserialize_ok(json_load(orig.file))
    /\ obs.uptime >= PERSISTENCE_DELAY

C10_NoSpuriousNotification == ~obs.spurious

\* a get() has followed another with nothing set in between, after cells
\* were set and subscriptions released before the first of the two
C10_Witness ==
    /\ obs.repeatGet
    /\ obs.mutated
    /\ gets >= 3

\* C11: when a subscription fires, every subscription held is released
\* before the change callback is called, and the callback is called once:
\* the callback never runs with a subscription held or registered, and from
\* it to the next get() the detector holds none and none is registered.
C11_ReleasedBeforeCallback ==
    /\ ~obs.cbWhileHolding
    /\ obs.cbSinceGet <= 1
    /\ obs.cbSinceGet = 1 =>
          /\ Held = {}
          /\ \A h \in DOMAIN subs : ~subs[h].registered
          /\ Active(timers, dwc)

\* a subscription made by a flush has fired: the callback has run and has
\* scheduled a write, and nothing is held
C11_Witness ==
    /\ obs.writes >= 1
    /\ obs.cbSinceGet = 1
    /\ Held = {}
    /\ Active(timers, dwc)

\* C12: after a pending delayed write is cancelled before it runs, the
\* change that caused it is not lost: the glue is never left with a cell
\* set since the last get(), no delayed call pending and no subscription
\* registered that could call the callback again.
C12_NoLossAfterCancel ==
    (phase = "running" /\ obs.cancelled) =>
        ~ /\ obs.mutsSinceGet > 0
          /\ ~fileExists \/ file # json_dump(state_to_json(tree))
          /\ ActiveTimers = {}
          /\ \A h \in DOMAIN subs : ~subs[h].registered

\* C13: when state_to_json raises partway through a get(), the
\* subscriptions held before that get() have been released, those made
\* during the partial walk are registered and held, and the next get() or
\* the next fire releases them: no registered subscription is ever outside
\* the list the detector holds.
C13_PartialWalkTracked ==
    pcdExists =>
        /\ \A h \in DOMAIN subs : subs[h].registered => h \in Held
        /\ EarlierReleased
        /\ (obs.getFailed /\ obs.cbSinceGet = 0) =>
              /\ Held = CollectedBy(gets)
              /\ \A h \in Held : subs[h].registered
        /\ (obs.partialGen # 0 /\ (gets > obs.partialGen \/ obs.cbSinceGet > 0)) =>
              \A h \in CollectedBy(obs.partialGen) :
                  ~subs[h].registered /\ subs[h].unsubs = 1

\* a get() raised after subscribing to some cells but not all, replacing
\* the subscriptions of the get() before, and the get() after it returned
C13_Witness ==
    /\ obs.partialGen >= 2
    /\ gets = obs.partialGen + 1
    /\ ~obs.getFailed
    /\ obs.cbSinceGet = 0
    /\ Cardinality(CollectedBy(obs.partialGen)) \in 1..(NumNodes - 1)
    /\ Held = CollectedBy(gets)

\* C14: every flush ends with no delayed call active, and the next call of
\* the callback after it schedules a new one: from a flush until the
\* callback runs no call is pending and the glue's handle is not active,
\* and once the callback has run after a flush the handle is a pending
\* call due one delay after that callback.
C14_FlushEndsIdle ==
    phase = "running" =>
        /\ obs.batchAge = -1 => (ActiveTimers = {} /\ ~Active(timers, dwc))
        /\ (obs.writes >= 1 /\ obs.batchAge # -1) =>
              /\ Active(timers, dwc)
              /\ timers[dwc].left = PERSISTENCE_DELAY - obs.batchAge
        /\ \A c \in 1..obs.writes : timers[c].st = "called"

\* a flush has been made and the callback has run after it: the call of
\* the flush is spent and a second call is pending
C14_Witness ==
    /\ obs.writes >= 1
    /\ obs.batchAge # -1
    /\ dwc >= 2
    /\ timers[1].st = "called"
    /\ Active(timers, dwc)

\* C15: a write that fails during a flush is not tried again by itself:
\* from the failed write until the callback next runs no delayed call is
\* pending, and no flush runs in that time.
C15_NoAutomaticRetry ==
    /\ ~obs.retried
    /\ obs.retryWatch =>
          /\ ActiveTimers = {}
          /\ ~Active(timers, dwc)
          /\ obs.batchAge = -1

\* a write has failed leaving the file empty, the subscriptions of its
\* get() are held, and a cell set since has not been delivered yet
C15_Witness ==
    /\ obs.retryWatch
    /\ fileExists /\ file = <<>>
    /\ Held = CollectedBy(gets) /\ Held # {}
    /\ obs.mutsSinceGet > 0
    /\ \E h \in Held : subs[h].pending

\* C16: the backup is written during construction only: no step after it
\* (a cell set, a delivery, a tick, a flush) changes the backup, which so
\* stays the text of the state file as construction loaded it.
C16_BackupOnlyAtStartup ==
    [][phase # "new" => (backupExists' = backupExists /\ backup' = backup)]_vars

\* two flushes after a load, the file rewritten and the backup still the
\* text that was loaded
C16_Witness ==
    /\ phase = "running"
    /\ orig.fileExists
    /\ obs.writes >= 2
    /\ backupExists /\ backup = orig.file
    /\ file # backup

\* C17: over any sequence of get() calls and fires, unsubscribe() is called
\* at most once on each subscription the detector made.
C17_UnsubscribeAtMostOnce ==
    \A h \in DOMAIN subs : subs[h].unsubs <= 1

\* the subscriptions of a get() were released by a fire, and the get()
\* after it, which clears again, has left them unsubscribed once
C17_Witness ==
    /\ gets >= 2
    /\ obs.getAfterFire
    /\ CollectedBy(gets - 1) # {}
    /\ \A h \in CollectedBy(gets - 1) : subs[h].unsubs = 1
    /\ \A h \in CollectedBy(gets) : subs[h].unsubs = 0

\* the state file holds what json.dump writes for the cells as they are
FileCurrent == fileExists /\ file = json_dump(state_to_json(tree))

\* C18: with persistence on, a running reactor and no failure, every cell
\* set after construction is followed by a flush, and once the cells stop
\* changing the state file comes to hold, and keeps, their serialization;
\* this includes cells set while no subscription is held.
C18_EventualPersistence ==
    /\ (phase = "running" /\ obs.mutsSinceGet > 0)
          ~> (obs.mutsSinceGet = 0 /\ obs.writes >= 1)
    /\ <>[](phase = "running" /\ obs.mutated => FileCurrent)

\* a second flush has written a cell that was set after the callback ran,
\* while no subscription was held
C18_Witness ==
    /\ obs.writes >= 2
    /\ obs.flushFresh
    /\ obs.mutsSinceGet = 0
    /\ FileCurrent

\* C19: after a construction that loaded, with persistence on and nothing
\* raising, the detector holds subscriptions exactly when no delayed write
\* is pending: while one is pending none is held, and whenever none is held
\* one is pending.
C19_HeldIffIdle ==
    phase = "running" =>
        /\ (Held # {}) <=> (ActiveTimers = {})
        /\ (Held # {}) <=> ~Active(timers, dwc)
        /\ \A h \in Held : subs[h].registered

\* after a flush a subscription has fired again: a delayed write is
\* pending and the detector holds nothing
C19_Witness ==
    /\ phase = "running"
    /\ obs.writes >= 1
    /\ Held = {}
    /\ ActiveTimers = {dwc}
    /\ obs.mutsSinceDirty >= 1

\* C20: when get() raises inside a flush, the state file is neither opened
\* nor changed, and no delayed call is left pending: none is pending from
\* that flush until the callback next runs.
C20_FailedGetLeavesFile ==
    /\ ~obs.failTouched
    /\ (obs.flushGetFailed /\ obs.cbSinceGet = 0) =>
          /\ ActiveTimers = {}
          /\ ~Active(timers, dwc)
          /\ obs.batchAge = -1

\* a flush has written the file, and in a later flush get() has raised
\* with the cells changed since: the file is as the first flush wrote it
C20_Witness ==
    /\ obs.flushGetFailed
    /\ obs.writes >= 1
    /\ fileExists
    /\ file # json_dump(state_to_json(tree))
    /\ json_ok(file)

====
